---- MODULE Spec2Model ----
(***************************************************************************)
(* A model of briefcase's Xcode integration (integrations/xcode.py) and of *)
(* the DMG build command (platforms/macOS/dmg.py).                         *)
(*                                                                         *)
(* Python strings are modelled as tuples of one-character strings, so that *)
(* startswith, split and int are computed the way Python computes them.    *)
(* A call is one step: Init draws the arguments and what the environment   *)
(* (the subprocess module, the file system) will answer; the action        *)
(* applies the function and records its outcome in `result`.               *)
(***************************************************************************)
EXTENDS Integers, Sequences, FiniteSets, TLC

VARIABLES
    pc,      \* "ready": the call has not run yet; "done": it has returned or raised
    op,      \* the function being called
    arg,     \* its argument (min_version, os_name, udid or the app configuration)
    env,     \* what the environment answers: the outcome of sub.check_output, or the file system
    result,  \* the outcome of the call
    last     \* history: the previous completed call (op, arg, env, result), or NoCall

vars == <<pc, op, arg, env, result, last>>

----------------------------------------------------------------------------
(* Bounds of the model *)

\* longest text that follows the head of the xcodebuild output
MaxTail == 3
\* longest min_version tuple
MaxMinLen == 4

----------------------------------------------------------------------------
(* Python string primitives *)

Digits == <<"0", "1", "2", "3", "4", "5", "6", "7", "8", "9">>

IsDigit(c) == \E i \in 1..10 : Digits[i] = c

DigitValue(c) == (CHOOSE i \in 1..10 : Digits[i] = c) - 1

\* str.startswith(prefix)
startswith(s, prefix) ==
    /\ Len(s) >= Len(prefix)
    /\ SubSeq(s, 1, Len(prefix)) = prefix

\* position of the first occurrence of the character sep in s, 0 when absent
IndexOf(s, sep) ==
    IF \E i \in 1..Len(s) : s[i] = sep
    THEN CHOOSE i \in 1..Len(s) : s[i] = sep /\ \A j \in 1..(i - 1) : s[j] # sep
    ELSE 0

\* str.split(sep) for a one-character separator: empty pieces are kept and
\* the empty string splits into one empty piece
RECURSIVE split(_, _)
split(s, sep) ==
    LET i == IndexOf(s, sep) IN
    IF i = 0 THEN <<s>>
    ELSE <<SubSeq(s, 1, i - 1)>> \o split(SubSeq(s, i + 1, Len(s)), sep)

\* str.split(sep, 1): at most one split
split1(s, sep) ==
    LET i == IndexOf(s, sep) IN
    IF i = 0 THEN <<s>>
    ELSE <<SubSeq(s, 1, i - 1), SubSeq(s, i + 1, Len(s))>>

\* int(s) succeeds: over the characters of the model (digits, letters, '.',
\* ' ', '\n') a string is an integer literal iff it is a non-empty run of
\* digits, with an optional sign in front
IsIntLiteral(s) ==
    LET body == IF Len(s) > 0 /\ s[1] \in {"-", "+"} THEN Tail(s) ELSE s IN
    /\ Len(body) > 0
    /\ \A i \in 1..Len(body) : IsDigit(body[i])

RECURSIVE DigitsValue(_)
DigitsValue(s) ==
    IF s = <<>> THEN 0
    ELSE 10 * DigitsValue(SubSeq(s, 1, Len(s) - 1)) + DigitValue(s[Len(s)])

\* int(s), for s an integer literal
int(s) ==
    IF s[1] = "-" THEN 0 - DigitsValue(Tail(s))
    ELSE IF s[1] = "+" THEN DigitsValue(Tail(s))
    ELSE DigitsValue(s)

\* str(n) for an integer n
RECURSIVE NatStr(_)
NatStr(n) ==
    IF n < 10 THEN <<Digits[n + 1]>>
    ELSE NatStr(n \div 10) \o <<Digits[(n % 10) + 1]>>

str(n) == IF n < 0 THEN <<"-">> \o NatStr(0 - n) ELSE NatStr(n)

\* '.'.join(str(v) for v in t)
RECURSIVE DotJoin(_)
DotJoin(t) ==
    IF t = <<>> THEN <<>>
    ELSE IF Len(t) = 1 THEN str(t[1])
    ELSE str(t[1]) \o <<".">> \o DotJoin(Tail(t))

\* the order of Python tuples: the first differing component decides, and a
\* proper prefix is smaller than the longer tuple
RECURSIVE TupleLess(_, _)
TupleLess(a, b) ==
    IF b = <<>> THEN FALSE
    ELSE IF a = <<>> THEN TRUE
    ELSE IF Head(a) # Head(b) THEN Head(a) < Head(b)
    ELSE TupleLess(Tail(a), Tail(b))

----------------------------------------------------------------------------
(* The subprocess module *)

\* sub.check_output(argv) either returns the standard output of a command
\* that exited zero, raises CalledProcessError (non-zero exit), or raises
\* FileNotFoundError (the command could not be launched)
RunOk(output) == [kind |-> "ok", output |-> output]
RunNonZero == [kind |-> "CalledProcessError", output |-> <<>>]
RunNoLaunch == [kind |-> "FileNotFoundError", output |-> <<>>]

XcodebuildArgv == <<"xcodebuild", "-version">>
SimctlListArgv == <<"xcrun", "simctl", "list", "-j">>
SimctlDevicesArgv(udid) == <<"xcrun", "simctl", "list", "devices", "-j", udid>>

\* outcomes of a call
NoValue == <<>>
Returned(value, warned, calls) ==
    [status |-> "return", exc |-> "", msg |-> <<"">>, value |-> value,
     warned |-> warned, calls |-> calls]
Raised(exc, msg, calls) ==
    [status |-> "raise", exc |-> exc, msg |-> msg, value |-> NoValue,
     warned |-> FALSE, calls |-> calls]
NotRun ==
    [status |-> "none", exc |-> "", msg |-> <<"">>, value |-> NoValue,
     warned |-> FALSE, calls |-> <<>>]

\* faulty variant: the output of the previous call of the function is reused
check_output_cached(run) ==
    IF last.op = op /\ last.env.kind = "ok" /\ run.kind = "ok" THEN last.env ELSE run
\* sub.check_output(argv): the outcome of this call's own command
check_output(run) == run

----------------------------------------------------------------------------
(* ensure_xcode_is_installed *)

Xcode_ == <<"X", "c", "o", "d", "e", " ">>

\* min_version=None, or a tuple of integers
NoMinVersion == [given |-> FALSE, v |-> <<>>]
MinVersion(t) == [given |-> TRUE, v |-> t]

MsgNotInstalled == <<"Xcode is not installed.">>
MsgVersionTooLow(min_version, version) ==
    <<"Xcode {min_version} is required; {version} is installed. Please update Xcode.",
      DotJoin(min_version), DotJoin(version)>>

\* the pieces of the version: output.split('\n')[0].split(' ')[1].split('.')
VersionWords(output) == split(split(output, "\n")[1], " ")
VersionPieces(output) == split(VersionWords(output)[2], ".")

\* tuple(int(v) for v in pieces) + (0, 0)
ParsedVersion(pieces) ==
    [i \in 1..Len(pieces) |-> int(pieces[i])] \o <<0, 0>>

\* the commands the function runs: one sub.check_output call on every path
EnsureCalls(run) == <<XcodebuildArgv>>

\* faulty variant: the failure is swallowed
EnsureOnFailure_swallow(run) ==
    Returned(NoValue, FALSE, EnsureCalls(run))
\* the handler of the outer try
EnsureOnFailure(run) ==
    IF run.kind = "CalledProcessError"
    THEN Raised("BriefcaseCommandError", MsgNotInstalled, EnsureCalls(run))
    ELSE Raised(run.kind, <<"">>, EnsureCalls(run))

\* faulty variant: the prefix is checked although no minimum is asked for
EnsureNoMinimum_parse(run) ==
    IF startswith(run.output, Xcode_)
    THEN Returned(NoValue, FALSE, EnsureCalls(run))
    ELSE Returned(NoValue, TRUE, EnsureCalls(run))
\* the branch taken when no minimum version is asked for
EnsureNoMinimum(run) == Returned(NoValue, FALSE, EnsureCalls(run))

ensure_xcode_is_installed(min_version, run0) ==
    LET run == check_output(run0)
        calls == EnsureCalls(run)
        warning == Returned(NoValue, TRUE, calls)
    IN
    IF run.kind # "ok" THEN EnsureOnFailure(run)
    ELSE IF ~min_version.given THEN EnsureNoMinimum(run)
    ELSE IF ~startswith(run.output, Xcode_) THEN warning
    ELSE IF Len(VersionWords(run.output)) < 2
         THEN warning   \* IndexError: pass, then the warning
    ELSE LET pieces == VersionPieces(run.output) IN
         IF \E i \in 1..Len(pieces) : ~IsIntLiteral(pieces[i])
         THEN Raised("ValueError", <<"invalid literal for int()">>, calls)
         ELSE LET version == ParsedVersion(pieces) IN
              IF TupleLess(version, min_version.v)
              THEN Raised("BriefcaseCommandError",
                          MsgVersionTooLow(min_version.v, version), calls)
              ELSE Returned(NoValue, FALSE, calls)

----------------------------------------------------------------------------
(* Inputs of ensure_xcode_is_installed *)

RECURSIVE SeqsUpTo(_, _)
SeqsUpTo(S, n) ==
    IF n = 0 THEN {<<>>}
    ELSE LET shorter == SeqsUpTo(S, n - 1) IN
         shorter \cup {Append(s, x) : s \in {t \in shorter : Len(t) = n - 1}, x \in S}

OutputChars == {"0", "1", ".", " ", "\n", "b"}
OutputHeads == {<<>>, Xcode_, <<"X", "c", "o", "d", "e">>}
XcodeOutputs == {h \o t : h \in OutputHeads, t \in SeqsUpTo(OutputChars, MaxTail)}
XcodeRuns == {RunOk(o) : o \in XcodeOutputs} \cup {RunNonZero, RunNoLaunch}
\* the components a min_version is built from
MinComponents == {0, 1}
MinVersions ==
    {NoMinVersion} \cup {MinVersion(t) : t \in SeqsUpTo(MinComponents, MaxMinLen)}

NoCall == [op |-> "none", arg |-> <<>>, env |-> RunNonZero, result |-> NotRun]

InitXcode ==
    /\ pc = "ready"
    /\ op = "ensure_xcode_is_installed"
    /\ arg \in MinVersions
    /\ env \in XcodeRuns
    /\ result = NotRun
    /\ last = NoCall

Do_ensure_xcode_is_installed ==
    /\ pc = "ready"
    /\ op = "ensure_xcode_is_installed"
    /\ result' = ensure_xcode_is_installed(arg, env)
    /\ pc' = "done"
    /\ UNCHANGED <<op, arg, env, last>>

NextXcode == Do_ensure_xcode_is_installed

SpecXcode == InitXcode /\ [][NextXcode]_vars

----------------------------------------------------------------------------
(* class DeviceState *)

SHUTDOWN == 0
BOOTED == 1
SHUTTING_DOWN == 10
UNKNOWN == 99

----------------------------------------------------------------------------
(* Python dictionaries: a sequence of <<key, value>> pairs with distinct   *)
(* keys, in insertion order.                                               *)

DictKeys(d) == {d[i][1] : i \in 1..Len(d)}

DictGet(d, k) == d[CHOOSE i \in 1..Len(d) : d[i][1] = k][2]

\* d[k] = v: a new key is appended, an existing key keeps its place
DictSet(d, k, v) ==
    IF k \in DictKeys(d)
    THEN [i \in 1..Len(d) |-> IF d[i][1] = k THEN <<k, v>> ELSE d[i]]
    ELSE Append(d, <<k, v>>)

\* the dictionary a comprehension builds from the <<key, value>> pairs it
\* yields, in order: a later pair overwrites an earlier one with the same key
RECURSIVE DictOf(_)
DictOf(pairs) ==
    IF pairs = <<>> THEN <<>>
    ELSE LET last_pair == pairs[Len(pairs)] IN
         DictSet(DictOf(SubSeq(pairs, 1, Len(pairs) - 1)), last_pair[1], last_pair[2])

----------------------------------------------------------------------------
(* The document printed by xcrun simctl list -j, as json.loads returns it: *)
(*   runtimes: a list of [name, identifier, isAvailable]                   *)
(*   devices:  a dictionary from runtime identifier to a list of           *)
(*             [udid, name, isAvailable, state]                            *)

MsgSimctl == <<"Unable to run xcrun simctl.">>
MsgDeviceStatus(udid) == <<"Unable to determine status of device {udid}.", udid>>

\* faulty variant: the failure is reported as an unknown device
SimctlOnFailure_notfound(run, calls) ==
    Raised("BriefcaseCommandError", MsgDeviceStatus("?"), calls)
\* the handler of the try of get_simulators and of get_device_state
SimctlOnFailure(run, calls) ==
    IF run.kind = "CalledProcessError"
    THEN Raised("BriefcaseCommandError", MsgSimctl, calls)
    ELSE Raised(run.kind, <<"">>, calls)

\* faulty variant: the availability of the runtime is not looked at
RuntimeMatches_noavail(os_name, runtime) ==
    startswith(runtime.name, os_name \o <<" ">>)
\* runtime['name'].startswith('{os_name} '.format(os_name=os_name)) and runtime['isAvailable']
RuntimeMatches(os_name, runtime) ==
    /\ startswith(runtime.name, os_name \o <<" ">>)
    /\ runtime.isAvailable

\* runtime['name'].split(' ', 1)[1]
RuntimeVersion(runtime) == split1(runtime.name, " ")[2]

\* the os_versions dictionary: version -> runtime identifier
OsVersions(os_name, simctl_data) ==
    LET keep(runtime) == RuntimeMatches(os_name, runtime)
        kept == SelectSeq(simctl_data.runtimes, keep)
    IN DictOf([i \in 1..Len(kept) |-> <<RuntimeVersion(kept[i]), kept[i].identifier>>])

\* {device['udid']: device['name'] for device in devices if device['isAvailable']}
AvailableDevices(devices) ==
    LET keep(device) == device.isAvailable
        kept == SelectSeq(devices, keep)
    IN DictOf([i \in 1..Len(kept) |-> <<kept[i].udid, kept[i].name>>])

get_simulators(os_name, run0) ==
    LET run == check_output(run0)
        calls == <<SimctlListArgv>>
    IN
    IF run.kind # "ok" THEN SimctlOnFailure(run, calls)
    ELSE LET simctl_data == run.output
             os_versions == OsVersions(os_name, simctl_data)
         IN
         IF \E i \in 1..Len(os_versions) :
                os_versions[i][2] \notin DictKeys(simctl_data.devices)
         THEN Raised("KeyError", <<"">>, calls)
         ELSE Returned(
                  [i \in 1..Len(os_versions) |->
                      <<os_versions[i][1],
                        AvailableDevices(DictGet(simctl_data.devices, os_versions[i][2]))>>],
                  FALSE, calls)

\* faulty variant: a misspelt key in the table
StateOfLabel_typo(label) ==
    IF label = "Booted" THEN BOOTED
    ELSE IF label = "ShuttingDown" THEN SHUTTING_DOWN
    ELSE IF label = "Shutdown" THEN SHUTDOWN
    ELSE UNKNOWN
\* {'Booted': ..., 'Shutting Down': ..., 'Shutdown': ...}.get(state, DeviceState.UNKNOWN)
StateOfLabel(label) ==
    IF label = "Booted" THEN BOOTED
    ELSE IF label = "Shutting Down" THEN SHUTTING_DOWN
    ELSE IF label = "Shutdown" THEN SHUTDOWN
    ELSE UNKNOWN

\* the devices of every runtime, in the order the two loops visit them
RECURSIVE DevicesInOrder(_)
DevicesInOrder(devices) ==
    IF devices = <<>> THEN <<>>
    ELSE Head(devices)[2] \o DevicesInOrder(Tail(devices))

get_device_state(udid, run0) ==
    LET run == check_output(run0)
        calls == <<SimctlDevicesArgv(udid)>>
    IN
    IF run.kind # "ok" THEN SimctlOnFailure(run, calls)
    ELSE LET visited == DevicesInOrder(run.output.devices) IN
         IF \E i \in 1..Len(visited) : visited[i].udid = udid
         THEN LET first == CHOOSE i \in 1..Len(visited) :
                              /\ visited[i].udid = udid
                              /\ \A j \in 1..(i - 1) : visited[j].udid # udid
              IN Returned(StateOfLabel(visited[first].state), FALSE, calls)
         ELSE Raised("BriefcaseCommandError", MsgDeviceStatus(udid), calls)

----------------------------------------------------------------------------
(* Inputs of get_simulators and get_device_state *)

\* most runtimes in a document
MaxRuntimes == 2
\* most devices listed under one runtime
MaxDevices == 2

iOS == <<"i", "O", "S">>
tvOS == <<"t", "v", "O", "S">>
OsNames == {iOS, tvOS}

Runtime(name, identifier, isAvailable) ==
    [name |-> name, identifier |-> identifier, isAvailable |-> isAvailable]
Device(udid, name, isAvailable, state) ==
    [udid |-> udid, name |-> name, isAvailable |-> isAvailable, state |-> state]

RuntimeRecords ==
    { Runtime(iOS \o <<" ", "1", "3">>, "r1", TRUE),
      Runtime(iOS \o <<" ", "1", "3">>, "r2", TRUE),
      Runtime(iOS \o <<" ", "1", " ", "b">>, "r2", TRUE),
      Runtime(iOS \o <<"X", " ", "1">>, "r1", TRUE),
      Runtime(tvOS \o <<" ", "1", "3">>, "r2", FALSE) }

\* get_simulators never reads the state of a device
ListedDevices ==
    { Device("A", "iPhone 11", TRUE, "Shutdown"),
      Device("B", "iPad", TRUE, "Shutdown"),
      Device("B", "iPhone 11", FALSE, "Shutdown") }

\* the devices dictionary: a list under "r1", and under "r2" when it is a key
DeviceMaps(records) ==
    LET lists == SeqsUpTo(records, MaxDevices) IN
    {<<<<"r1", l1>>>> : l1 \in lists}
        \cup {<<<<"r1", l1>>, <<"r2", l2>>>> : l1 \in lists, l2 \in lists}

\* xcrun simctl list devices -j prints no runtimes; get_device_state reads
\* the udid and the state of a device
StateLabels == {"Booted", "Shutting Down", "Shutdown", "Creating"}
ProbedDevices ==
    {Device("A", "iPhone 11", TRUE, l) : l \in StateLabels}
        \cup {Device("B", "iPad", TRUE, "Booted")}
UDIDs == {"A", "B", "ZZZ"}

InitSimctl ==
    /\ pc = "ready"
    /\ result = NotRun
    /\ last = NoCall
    /\ \/ /\ op = "get_simulators"
          /\ arg \in OsNames
          /\ \/ env \in {RunNonZero, RunNoLaunch}
             \/ \E rs \in SeqsUpTo(RuntimeRecords, MaxRuntimes) :
                \E ds \in DeviceMaps(ListedDevices) :
                    env = RunOk([runtimes |-> rs, devices |-> ds])
       \/ /\ op = "get_device_state"
          /\ arg \in UDIDs
          /\ \/ env \in {RunNonZero, RunNoLaunch}
             \/ \E ds \in {<<>>} \cup DeviceMaps(ProbedDevices) :
                    env = RunOk([runtimes |-> <<>>, devices |-> ds])

Do_get_simulators ==
    /\ pc = "ready"
    /\ op = "get_simulators"
    /\ result' = get_simulators(arg, env)
    /\ pc' = "done"
    /\ UNCHANGED <<op, arg, env, last>>

Do_get_device_state ==
    /\ pc = "ready"
    /\ op = "get_device_state"
    /\ result' = get_device_state(arg, env)
    /\ pc' = "done"
    /\ UNCHANGED <<op, arg, env, last>>

NextSimctl == Do_get_simulators \/ Do_get_device_state

SpecSimctl == InitSimctl /\ [][NextSimctl]_vars

----------------------------------------------------------------------------
(* Properties of ensure_xcode_is_installed *)

EnsureDone == pc = "done" /\ op = "ensure_xcode_is_installed"

\* the first line of the output is 'Xcode ' followed by dotted integers
FirstLine(output) == split(output, "\n")[1]
DottedPart(output) == SubSeq(FirstLine(output), Len(Xcode_) + 1, Len(FirstLine(output)))
ReportsVersion(output) ==
    /\ startswith(FirstLine(output), Xcode_)
    /\ \A i \in 1..Len(split(DottedPart(output), ".")) :
          LET piece == split(DottedPart(output), ".")[i] IN
          /\ Len(piece) > 0
          /\ \A j \in 1..Len(piece) : IsDigit(piece[j])
ReportedVersion(output) ==
    [i \in 1..Len(split(DottedPart(output), ".")) |->
        DigitsValue(split(DottedPart(output), ".")[i])]

\* v >= m, component by component, the shorter of the two padded with zeros
Pad(t, n) == [i \in 1..n |-> IF i <= Len(t) THEN t[i] ELSE 0]
PaddedGE(v, m) ==
    LET n == IF Len(v) > Len(m) THEN Len(v) ELSE Len(m)
        a == Pad(v, n)
        b == Pad(m, n)
    IN ~\E i \in 1..n : a[i] < b[i] /\ \A j \in 1..(i - 1) : a[j] = b[j]

IsVersionTooLow(r) ==
    /\ r.status = "raise"
    /\ r.exc = "BriefcaseCommandError"
    /\ r.msg[1] = MsgVersionTooLow(<<>>, <<>>)[1]

IsNotInstalled(r) ==
    /\ r.status = "raise"
    /\ r.exc = "BriefcaseCommandError"
    /\ r.msg = MsgNotInstalled

\* C1: when the command exits zero and its first line is 'Xcode <dotted
\* integers>' reporting version v, ensure_xcode_is_installed(m) returns iff
\* v >= m component-wise after zero-padding, and otherwise raises the
\* version-too-low error.
C1_ReturnsIffAtLeastMinimum ==
    (EnsureDone /\ env.kind = "ok" /\ arg.given /\ ReportsVersion(env.output))
        => IF PaddedGE(ReportedVersion(env.output), arg.v)
           THEN result.status = "return"
           ELSE IsVersionTooLow(result)

\* the version of the output cannot be parsed: no 'Xcode ' prefix, or a
\* dot-separated piece that is not an integer
Unparseable(output) ==
    \/ ~startswith(output, Xcode_)
    \/ \E i \in 1..Len(VersionPieces(output)) : ~IsIntLiteral(VersionPieces(output)[i])

\* C2: when the command exits zero and a minimum version is given, an output
\* whose version cannot be parsed makes ensure_xcode_is_installed print the
\* warning and return; it never raises.
C2_UnparseableWarnsAndReturns ==
    (EnsureDone /\ env.kind = "ok" /\ arg.given /\ Unparseable(env.output))
        => (result.status = "return" /\ result.warned)

\* C3: a non-zero exit of the version command makes
\* ensure_xcode_is_installed raise the 'Xcode is not installed' error, for
\* every min_version: no other error, no warning, no return.
C3_NonZeroExitIsNotInstalled ==
    (EnsureDone /\ env.kind = "CalledProcessError")
        => (IsNotInstalled(result) /\ ~result.warned)

C3_Witness ==
    /\ EnsureDone /\ env.kind = "CalledProcessError"
    /\ arg.given /\ Len(arg.v) = 3
    /\ IsNotInstalled(result)

\* C4: when the version command cannot be launched at all,
\* ensure_xcode_is_installed raises the same 'Xcode is not installed' error
\* as for a non-zero exit.
C4_NoLaunchIsNotInstalled ==
    (EnsureDone /\ env.kind = "FileNotFoundError") => IsNotInstalled(result)

\* C5: ensure_xcode_is_installed(None) returns, without a warning, whenever
\* the command exits zero, whatever the output.
C5_NoMinimumAlwaysReturns ==
    (EnsureDone /\ env.kind = "ok" /\ ~arg.given)
        => (result.status = "return" /\ ~result.warned)

C5_Witness ==
    /\ EnsureDone /\ env.kind = "ok" /\ ~arg.given
    /\ ~startswith(env.output, Xcode_)
    /\ result.status = "return"

----------------------------------------------------------------------------
(* Properties of get_simulators and get_device_state *)

SimulatorsDone == pc = "done" /\ op = "get_simulators"
DeviceStateDone == pc = "done" /\ op = "get_device_state"

\* a well-formed document: no two runtimes share a name, every runtime's
\* identifier is a key of the devices dictionary, and no two devices listed
\* under one runtime share a UDID
WellFormed(doc) ==
    /\ \A i, j \in 1..Len(doc.runtimes) :
          i # j => doc.runtimes[i].name # doc.runtimes[j].name
    /\ \A i \in 1..Len(doc.runtimes) :
          doc.runtimes[i].identifier \in DictKeys(doc.devices)
    /\ \A k \in 1..Len(doc.devices) :
          \A i, j \in 1..Len(doc.devices[k][2]) :
              i # j => doc.devices[k][2][i].udid # doc.devices[k][2][j].udid

\* the text after the first space of a name
AfterFirstSpace(name) == SubSeq(name, IndexOf(name, " ") + 1, Len(name))

\* the runtimes of the document that are available and named '<os_name> ...'
WantedRuntimes(os_name, doc) ==
    {doc.runtimes[i] : i \in {j \in 1..Len(doc.runtimes) :
        /\ doc.runtimes[j].isAvailable
        /\ startswith(doc.runtimes[j].name, os_name \o <<" ">>)}}

\* the <<udid, name>> pairs of the available devices listed under an identifier
WantedDevices(identifier, doc) ==
    LET listed == DictGet(doc.devices, identifier) IN
    {<<listed[i].udid, listed[i].name>> :
        i \in {j \in 1..Len(listed) : listed[j].isAvailable}}

DictPairs(d) == {d[i] : i \in 1..Len(d)}

\* C6: for a well-formed document, get_simulators returns a mapping whose
\* keys are exactly the versions of the available runtimes named
\* '<os_name> ...', each mapped to exactly the UDID-to-name pairs of the
\* available devices listed under that runtime's identifier; with no such
\* runtime the mapping is empty, and nothing is raised.
C6_SimulatorsAreTheAvailableOnes ==
    (SimulatorsDone /\ env.kind = "ok" /\ WellFormed(env.output))
        => /\ result.status = "return"
           /\ Cardinality(DictKeys(result.value)) = Len(result.value)
           /\ DictKeys(result.value) =
                  {AfterFirstSpace(r.name) : r \in WantedRuntimes(arg, env.output)}
           /\ \A r \in WantedRuntimes(arg, env.output) :
                  LET found == DictGet(result.value, AfterFirstSpace(r.name)) IN
                  /\ Cardinality(DictKeys(found)) = Len(found)
                  /\ DictPairs(found) = WantedDevices(r.identifier, env.output)

C6_Witness ==
    /\ SimulatorsDone /\ env.kind = "ok" /\ WellFormed(env.output)
    /\ result.status = "return"
    /\ Len(result.value) = 2
    /\ \E i \in 1..2 : Len(result.value[i][2]) = 1
    /\ \E k \in 1..Len(env.output.devices) :
          \E i \in 1..Len(env.output.devices[k][2]) :
              ~env.output.devices[k][2][i].isAvailable
    /\ Len(env.output.devices[1][2]) = 2

IsDeviceNotFound(r) ==
    /\ r.status = "raise"
    /\ r.exc = "BriefcaseCommandError"
    /\ r.msg = MsgDeviceStatus(arg)

\* the devices of the document that have the UDID
DevicesWithUdid(udid, doc) ==
    UNION {{doc.devices[k][2][i] : i \in {j \in 1..Len(doc.devices[k][2]) :
                doc.devices[k][2][j].udid = udid}} : k \in 1..Len(doc.devices)}

\* the state the claim gives for a label
ClaimedState(label, state) ==
    /\ label = "Booted" => state = BOOTED
    /\ label = "Shutting Down" => state = SHUTTING_DOWN
    /\ label = "Shutdown" => state = SHUTDOWN
    /\ label \notin {"Booted", "Shutting Down", "Shutdown"} => state = UNKNOWN

\* C7: get_device_state raises the device-not-found error iff no device of
\* any runtime has the UDID; otherwise it returns the state of a device with
\* that UDID: Booted, ShuttingDown, Shutdown for the three known labels and
\* Unknown for any other label, never an error.
C7_DeviceStateOrNotFound ==
    (DeviceStateDone /\ env.kind = "ok")
        => IF DevicesWithUdid(arg, env.output) = {}
           THEN IsDeviceNotFound(result)
           ELSE /\ result.status = "return"
                /\ \E d \in DevicesWithUdid(arg, env.output) :
                       ClaimedState(d.state, result.value)

C7_Witness ==
    /\ DeviceStateDone /\ env.kind = "ok"
    /\ result.status = "return"
    /\ result.value = SHUTTING_DOWN
    /\ Len(env.output.devices) = 2

IsSimctlFailure(r) ==
    /\ r.status = "raise"
    /\ r.exc = "BriefcaseCommandError"
    /\ r.msg = MsgSimctl

\* C8: a non-zero exit of the listing command makes get_simulators and
\* get_device_state raise the 'Unable to run xcrun simctl' error: no result,
\* no device-not-found error.
C8_NonZeroExitIsSimctlFailure ==
    ((SimulatorsDone \/ DeviceStateDone) /\ env.kind = "CalledProcessError")
        => IsSimctlFailure(result)

C8_Witness ==
    /\ DeviceStateDone /\ env.kind = "CalledProcessError"
    /\ arg = "A"
    /\ IsSimctlFailure(result)

----------------------------------------------------------------------------
(* macOSDmgBuildCommand.build_app *)

\* an attribute of the app configuration: missing (reading it raises
\* AttributeError) or set to a name
Unset == [set |-> FALSE, name |-> ""]
Attr(name) == [set |-> TRUE, name |-> name]

\* self.base_path / '{icon}.icns'.format(icon=name), and the same for .png
IcnsPath(name) == <<"base_path", name, ".icns">>
PngPath(name) == <<"base_path", name, ".png">>

\* icon_filename = None
NoFile == <<>>

\* faulty variant: the fallback icon is used without looking for its file
FallbackIcon_unchecked(app, files) ==
    IF app.icon.set THEN IcnsPath(app.icon.name) ELSE NoFile
\* the inner try: the app icon, when app.icon is set and the file exists
FallbackIcon(app, files) ==
    IF app.icon.set /\ IcnsPath(app.icon.name) \in files
    THEN IcnsPath(app.icon.name)
    ELSE NoFile

\* the outer try: the installer icon, when app.installer_icon is set and the
\* file exists; every other path raises AttributeError and falls back
IconFilename(app, files) ==
    IF app.installer_icon.set /\ IcnsPath(app.installer_icon.name) \in files
    THEN IcnsPath(app.installer_icon.name)
    ELSE FallbackIcon(app, files)

BaseSettings(app) ==
    << <<"files", <<"bundle_path">> >>,
       <<"symlinks", <<"Applications", "/Applications">> >>,
       <<"icon_locations", <<app.formal_name, "Applications">> >> >>

WithIcon(settings, app, files) ==
    IF IconFilename(app, files) # NoFile
    THEN DictSet(settings, "icon", IconFilename(app, files))
    ELSE settings

WithBackground(settings, app, files) ==
    IF app.installer_background.set /\ PngPath(app.installer_background.name) \in files
    THEN DictSet(settings, "background", PngPath(app.installer_background.name))
    ELSE settings

\* the call self.dmgbuild.build_dmg(filename=..., volume_name=..., settings=...)
BuildDmg(app, settings) ==
    [filename |-> <<"platform_path", app.formal_name, app.version, ".dmg">>,
     volume_name |-> <<app.formal_name, app.version>>,
     settings |-> settings]

build_app(app, files) ==
    LET dmg_settings == WithBackground(WithIcon(BaseSettings(app), app, files), app, files)
    IN Returned(NoValue, FALSE, <<BuildDmg(app, dmg_settings)>>)

IconNames == {"a", "b"}
Attrs == {Unset} \cup {Attr(n) : n \in IconNames}
Apps ==
    {[formal_name |-> "My App", version |-> "1.2.3",
      installer_icon |-> i, icon |-> c, installer_background |-> b] :
        i \in Attrs, c \in Attrs, b \in Attrs}
Files == {IcnsPath(n) : n \in IconNames} \cup {PngPath(n) : n \in IconNames}

InitDmg ==
    /\ pc = "ready"
    /\ op = "build_app"
    /\ arg \in Apps
    /\ env \in {[kind |-> "files", files |-> f] : f \in SUBSET Files}
    /\ result = NotRun
    /\ last = NoCall

Do_build_app ==
    /\ pc = "ready"
    /\ op = "build_app"
    /\ result' = build_app(arg, env.files)
    /\ pc' = "done"
    /\ UNCHANGED <<op, arg, env, last>>

NextDmg == Do_build_app

SpecDmg == InitDmg /\ [][NextDmg]_vars

BuildDone == pc = "done" /\ op = "build_app"

InstallerIconFound == arg.installer_icon.set /\ IcnsPath(arg.installer_icon.name) \in env.files
AppIconFound == arg.icon.set /\ IcnsPath(arg.icon.name) \in env.files
BackgroundFound ==
    arg.installer_background.set /\ PngPath(arg.installer_background.name) \in env.files

\* C10: build_app never fails over a missing or unspecified installer icon,
\* app icon or installer background and calls build_dmg exactly once; the
\* settings carry 'icon' = the installer icon file when it is specified and
\* exists, otherwise the app icon file when it is specified and exists,
\* otherwise no 'icon'; and 'background' iff the installer background is
\* specified and exists.
C10_BuildDmgOnceWithFoundFiles ==
    BuildDone =>
        /\ result.status = "return"
        /\ Len(result.calls) = 1
        /\ LET settings == result.calls[1].settings IN
           /\ Cardinality(DictKeys(settings)) = Len(settings)
           /\ IF InstallerIconFound
              THEN /\ "icon" \in DictKeys(settings)
                   /\ DictGet(settings, "icon") = IcnsPath(arg.installer_icon.name)
              ELSE IF AppIconFound
              THEN /\ "icon" \in DictKeys(settings)
                   /\ DictGet(settings, "icon") = IcnsPath(arg.icon.name)
              ELSE "icon" \notin DictKeys(settings)
           /\ ("background" \in DictKeys(settings)) <=> BackgroundFound
           /\ BackgroundFound =>
                  DictGet(settings, "background") = PngPath(arg.installer_background.name)

C10_Witness ==
    /\ BuildDone
    /\ arg.installer_icon.set /\ ~InstallerIconFound
    /\ AppIconFound
    /\ arg.installer_background.set /\ ~BackgroundFound
    /\ result.status = "return"
    /\ DictGet(result.calls[1].settings, "icon") = IcnsPath(arg.icon.name)
    /\ "background" \notin DictKeys(result.calls[1].settings)

----------------------------------------------------------------------------
(* Sequences of calls *)

SampleDocument ==
    [runtimes |-> <<Runtime(iOS \o <<" ", "1", "3">>, "r1", TRUE)>>,
     devices |-> << <<"r1", <<Device("A", "iPhone 11", TRUE, "Booted"),
                              Device("B", "iPad", FALSE, "Creating")>> >> >>]
EmptyDocument == [runtimes |-> <<>>, devices |-> <<>>]

SampleCalls ==
    {[op |-> "ensure_xcode_is_installed", arg |-> m, env |-> r] :
        m \in {NoMinVersion, MinVersion(<<1>>), MinVersion(<<1, 0, 0, 0>>)},
        r \in {RunOk(Xcode_ \o <<"1">>), RunOk(Xcode_ \o <<"0", ".", "1">>),
               RunOk(Xcode_ \o <<"b">>), RunOk(<<"b">>), RunNonZero, RunNoLaunch}}
    \cup
    {[op |-> "get_simulators", arg |-> o, env |-> r] :
        o \in OsNames,
        r \in {RunOk(SampleDocument), RunOk(EmptyDocument), RunNonZero, RunNoLaunch}}
    \cup
    {[op |-> "get_device_state", arg |-> u, env |-> r] :
        u \in {"A", "B", "ZZZ"},
        r \in {RunOk(SampleDocument), RunOk(EmptyDocument), RunNonZero, RunNoLaunch}}

InitCalls ==
    /\ pc = "ready"
    /\ \E c \in SampleCalls : op = c.op /\ arg = c.arg /\ env = c.env
    /\ result = NotRun
    /\ last = NoCall

\* the caller makes its next call; the call that has just completed is kept
\* in the history variable
NextCall ==
    /\ pc = "done"
    /\ \E c \in SampleCalls : op' = c.op /\ arg' = c.arg /\ env' = c.env
    /\ last' = [op |-> op, arg |-> arg, env |-> env, result |-> result]
    /\ result' = NotRun
    /\ pc' = "ready"

NextCalls ==
    \/ NextCall
    \/ Do_ensure_xcode_is_installed
    \/ Do_get_simulators
    \/ Do_get_device_state

SpecCalls == InitCalls /\ [][NextCalls]_vars

\* the one command a call of the function runs
ExpectedArgv ==
    IF op = "ensure_xcode_is_installed" THEN <<"xcodebuild", "-version">>
    ELSE IF op = "get_simulators" THEN <<"xcrun", "simctl", "list", "-j">>
    ELSE <<"xcrun", "simctl", "list", "devices", "-j", arg>>

SameCallAsLast ==
    /\ last.op = op
    /\ last.arg = arg
    /\ last.env.kind = env.kind
    /\ last.env = env

====
